---- MODULE Spec2Model ----
(***************************************************************************)
(* A model of run.ts: recursive discovery of PDF files below the working   *)
(* directory, the existence gate on each companion .json path, and the     *)
(* per-file job that drives one external process and writes or deletes the *)
(* companion file according to the process's exit status.                  *)
(*                                                                         *)
(* File names are tuples of one-character strings, a path is the tuple of  *)
(* the names below the working directory, a file's content is a tuple of   *)
(* byte tokens.                                                            *)
(***************************************************************************)
EXTENDS Integers, Sequences, FiniteSets, TLC

VARIABLES
    tree,        \* the directory tree readdir sees: node -> [kind, name, readable]
    fs,          \* companion path -> [exists, data]: the files next to the PDFs
    pc,          \* the position of the top-level script / of the running job
    pdfs,        \* const pdfs (run.ts:162)
    i,           \* the loop index of run.ts:170, 1-based
    proc,        \* index -> phase of the external process spawned for pdfs[index]
    procOut,     \* the bytes the current process wrote to its stdout
    procCode,    \* the exit status of the current process
    stdoutText,  \* const stdoutText (run.ts:138)
    isJson,      \* let isJson (run.ts:141)
    code,        \* const code (run.ts:148)
    steps,       \* history: the steps the current job has taken on its process
    fsOp,        \* history: what the current job did to its companion file
    gateSaw,     \* history: whether the companion file existed when the gate probed it
    procWrote,   \* history: the current process itself created the companion file
    invoked,     \* history: the indices runPolkaWithPath was called for, in order
    outcomes,    \* history: the outcome logged for each candidate, in order
    touched,     \* history: the paths the run itself wrote or deleted
    exitStatus,  \* << >> while running, <<status>> once the script has ended
    mapIn,       \* the path handed to jsonPathForPdf when it is studied alone
    mapOut       \* << >>, then <<its result, the result of mapping that again>>

vars == <<mapIn, mapOut, tree, fs, pc, pdfs, i, proc, procOut, procCode, stdoutText, isJson,
          code, steps, fsOp, gateSaw, procWrote, invoked, outcomes, touched,
          exitStatus>>

(***************************************************************************)
(* Bounds.                                                                 *)
(***************************************************************************)
\* nodes below the root in the trees of the discovery specification
DiscNodes == 4
\* nodes below the root in the trees of the run specification
RunNodes == 3
\* nodes below the root in the trees of the specification with fairness
LiveNodes == 2

(***************************************************************************)
(* Names.                                                                  *)
(***************************************************************************)
NodeModules == <<"n","o","d","e","_","m","o","d","u","l","e","s">>
DotGit == <<".","g","i","t">>
DotGitUpper == <<".","G","i","t">>
DirPdf == <<"d",".","p","d","f">>
APdf == <<"a",".","p","d","f">>
AUpperPdf == <<"a",".","P","D","F">>
BPdf == <<"b",".","P","d","f">>
NoDotPdf == <<"a","p","d","f">>
PdfX == <<"a",".","p","d","f","x">>
LinkPdf == <<"s",".","p","d","f">>
DotPdf == <<".","p","d","f">>
DotJson == <<".","j","s","o","n">>

\* the /i flag of the regular expression of run.ts:32
Lower(c) ==
    CASE c = "P" -> "p"
      [] c = "D" -> "d"
      [] c = "F" -> "f"
      [] c = "G" -> "g"
      [] OTHER -> c

\* the test without the dot: /pdf$/i
MatchesAnyPdfSuffix(name) ==
    /\ Len(name) >= Len(DotPdf) - 1
    /\ [k \in 1..(Len(DotPdf) - 1) |-> Lower(name[Len(name) - (Len(DotPdf) - 1) + k])]
         = Tail(DotPdf)

\* /\.pdf$/i.test(e.name)
IsPdfName(name) ==
    /\ Len(name) >= Len(DotPdf)
    /\ [k \in 1..Len(DotPdf) |-> Lower(name[Len(name) - Len(DotPdf) + k])] = DotPdf

\* the comparison made case-insensitive
IsExcludedCaseBlind(name) ==
    [k \in 1..Len(name) |-> Lower(name[k])] \in {NodeModules, DotGit}

\* e.name === "node_modules" || e.name === ".git"
IsExcluded(name) == name = NodeModules \/ name = DotGit

(***************************************************************************)
(* The directory tree.  Node 0 is the root (process.cwd()); every other    *)
(* node names its parent.  readdir yields a directory's entries in node    *)
(* order.                                                                  *)
(***************************************************************************)
\* every node is an entry of the root
FlatShape(n) == 0

\* 1 and 2 are entries of the root, 3 is an entry of 1, 4 an entry of 3, 5 an
\* entry of the root, and every later node is an entry of the node before it
DeepShape(n) ==
    IF n <= 2 \/ n = 5 THEN 0 ELSE IF n = 3 THEN 1 ELSE IF n = 4 THEN 3 ELSE n - 1

Parent(t, n) == t[n].parent

NoEntry == [kind |-> "none", name |-> << >>, readable |-> TRUE]

Dir(name, readable) == [kind |-> "dir", name |-> name, readable |-> readable]

File(name) == [kind |-> "file", name |-> name, readable |-> TRUE]

\* neither a directory nor a regular file: a symbolic link, a socket, a fifo
Other(name) == [kind |-> "other", name |-> name, readable |-> TRUE]

RootEntries == {Dir(<< >>, TRUE), Dir(<< >>, FALSE)}

DiscEntries ==
    {NoEntry,
     Dir(NodeModules, TRUE), Dir(DotGit, TRUE), Dir(DotGitUpper, TRUE),
     Dir(DirPdf, TRUE), Dir(DirPdf, FALSE),
     File(APdf), File(BPdf), File(NoDotPdf), File(PdfX),
     Other(LinkPdf)}

RunEntries == {NoEntry, File(APdf), File(AUpperPdf), File(BPdf)}

\* what a file system allows: entries only inside directories, and no two
\* entries of one directory with the same name
WellFormed(t) ==
    /\ \A n \in DOMAIN t \ {0} :
          t[n].kind # "none" => t[Parent(t, n)].kind = "dir"
    /\ \A m, n \in DOMAIN t \ {0} :
          (m # n /\ Parent(t, m) = Parent(t, n) /\ t[m].kind # "none" /\ t[n].kind # "none")
              => t[m].name # t[n].name

\* the entries of a directory take its first node numbers
Packed(t) ==
    \A m, n \in DOMAIN t \ {0} :
        (m < n /\ Parent(t, m) = Parent(t, n) /\ t[n].kind # "none") => t[m].kind # "none"

\* the tree with root r and the entries s below it
MakeTree(r, s, shape) ==
    [k \in 0..Len(s) |->
        LET e == IF k = 0 THEN r ELSE s[k]
        IN [kind |-> e.kind, name |-> e.name, readable |-> e.readable,
            parent |-> IF k = 0 THEN 0 ELSE shape[k]]]

RECURSIVE SortedSeq(_)
SortedSeq(S) ==
    IF S = {} THEN << >>
    ELSE LET m == CHOOSE x \in S : \A y \in S : x <= y
         IN <<m>> \o SortedSeq(S \ {m})

\* await readdir(dir, { withFileTypes: true }): the entries, or a throw
readdir(t, d) ==
    IF t[d].readable
    THEN [ok |-> TRUE,
          entries |-> SortedSeq({n \in DOMAIN t \ {0} :
                                    Parent(t, n) = d /\ t[n].kind # "none"})]
    ELSE [ok |-> FALSE, entries |-> << >>]

(***************************************************************************)
(* walk.  The result is what the call pushed to `results` and whether it   *)
(* threw; a throw inside the entry loop ends the loop, as in JavaScript.   *)
(***************************************************************************)
RECURSIVE walk(_, _, _), walkEntries(_, _, _)

walkEntries(t, dirPath, es) ==
    IF es = << >> THEN [res |-> << >>, thrown |-> FALSE]
    ELSE LET e == t[Head(es)]
             full == Append(dirPath, e.name)
             here ==
                IF e.kind = "dir"
                THEN IF IsExcluded(e.name)
                     THEN [res |-> << >>, thrown |-> FALSE]
                     ELSE walk(t, Head(es), full)
                ELSE IF e.kind = "file" /\ IsPdfName(e.name)
                     THEN [res |-> <<full>>, thrown |-> FALSE]
                     ELSE [res |-> << >>, thrown |-> FALSE]
         IN IF here.thrown THEN here
            ELSE LET rest == walkEntries(t, dirPath, Tail(es))
                 IN [res |-> here.res \o rest.res, thrown |-> rest.thrown]

\* walk without the try/catch around readdir
walkNoCatch(t, d, dirPath) ==
    LET r == readdir(t, d)
    IN IF ~r.ok THEN [res |-> << >>, thrown |-> TRUE]
       ELSE walkEntries(t, dirPath, r.entries)

walk(t, d, dirPath) ==
    LET r == readdir(t, d)
    IN IF ~r.ok THEN [res |-> << >>, thrown |-> FALSE]
       ELSE walkEntries(t, dirPath, r.entries)

findPdfPathsRecursive(t) == walk(t, 0, << >>)

(***************************************************************************)
(* jsonPathForPdf.                                                         *)
(***************************************************************************)
\* the cut made at the first dot instead of the last
StripFromFirstDot(base) ==
    LET dots == {k \in 1..Len(base) : base[k] = "."}
    IN IF dots = {} THEN base
       ELSE LET first == CHOOSE k \in dots : \A j \in dots : k <= j
            IN IF first = Len(base) THEN base ELSE SubSeq(base, 1, first - 1)

\* base.replace(/\.[^.]+$/i, ""): cut at the last dot if something follows it
StripExt(base) ==
    LET dots == {k \in 1..Len(base) : base[k] = "."}
    IN IF dots = {} THEN base
       ELSE LET last == CHOOSE k \in dots : \A j \in dots : j <= k
            IN IF last = Len(base) THEN base ELSE SubSeq(base, 1, last - 1)

dirname(p) == SubSeq(p, 1, Len(p) - 1)

basename(p) == p[Len(p)]

jsonPathForPdf(pdfPath) ==
    Append(dirname(pdfPath), StripExt(basename(pdfPath)) \o DotJson)

(***************************************************************************)
(* Files and the bytes and text that go through the job.                   *)
(***************************************************************************)
Absent == [exists |-> FALSE, data |-> << >>]

FileWith(data) == [exists |-> TRUE, data |-> data]

\* what a companion file left by an earlier run holds
OldData == <<"o">>

\* what a process that writes the companion file itself leaves there
PartialData == <<"{">>

\* the bytes a process can write to its stdout: "[]", one byte that is not
\* valid UTF-8, or nothing
RawOutputs == {<<"[", "]">>, <<"BAD">>, << >>}

ExitCodes == {0, 1}

\* new Response(proc.stdout).text(): UTF-8 decoding, an invalid byte becomes U+FFFD
Decode(bytes) == [k \in 1..Len(bytes) |-> IF bytes[k] = "BAD" THEN "U+FFFD" ELSE bytes[k]]

\* Bun.write(outPath, text): the text encoded as UTF-8, U+FFFD is three bytes
RECURSIVE Encode(_)
Encode(text) ==
    IF text = << >> THEN << >>
    ELSE (IF Head(text) = "U+FFFD" THEN <<"EF", "BF", "BD">> ELSE <<Head(text)>>)
         \o Encode(Tail(text))

\* whether JSON.parse(text) returns rather than throws
JsonParses(text) == text = <<"[", "]">>

RECURSIVE PathOf(_, _)
PathOf(t, n) == IF n = 0 THEN << >> ELSE Append(PathOf(t, Parent(t, n)), t[n].name)

\* the companion path of every regular file of the tree
CompanionPaths(t) ==
    {jsonPathForPdf(PathOf(t, n)) : n \in {m \in DOMAIN t \ {0} : t[m].kind = "file"}}

Range(s) == {s[k] : k \in DOMAIN s}

(***************************************************************************)
(* The initial states.                                                     *)
(***************************************************************************)
Idle ==
    /\ pc = "start"
    /\ pdfs = << >>
    /\ i = 0
    /\ proc = << >>
    /\ procOut = << >>
    /\ procCode = 0
    /\ stdoutText = << >>
    /\ isJson = FALSE
    /\ code = 0
    /\ steps = << >>
    /\ fsOp = "none"
    /\ gateSaw = << >>
    /\ procWrote = FALSE
    /\ invoked = << >>
    /\ outcomes = << >>
    /\ touched = {}
    /\ exitStatus = << >>

\* jsonPathForPdf is not being studied alone
NoMap == mapIn = << >> /\ mapOut = << >>

\* a run: a small tree, and any of its companion files left by an earlier run
Init ==
    /\ \E r \in RootEntries, s \in [1..RunNodes -> RunEntries] :
          /\ tree = MakeTree(r, s, [k \in 1..RunNodes |-> FlatShape(k)])
          /\ WellFormed(tree) /\ Packed(tree)
    /\ fs \in [CompanionPaths(tree) -> {Absent, FileWith(OldData)}]
    /\ Idle
    /\ NoMap

\* discovery alone: a larger tree
InitDiscover ==
    /\ \E r \in RootEntries, s \in [1..DiscNodes -> DiscEntries] :
          /\ tree = MakeTree(r, s, [k \in 1..DiscNodes |-> DeepShape(k)])
          /\ WellFormed(tree) /\ Packed(tree)
    /\ fs = [p \in CompanionPaths(tree) |-> Absent]
    /\ Idle
    /\ NoMap

(***************************************************************************)
(* Discovery and the top of the script.                                    *)
(***************************************************************************)
jobVars == <<procOut, procCode, stdoutText, isJson, code, steps, fsOp, procWrote>>

histVars == <<gateSaw, invoked, outcomes, touched>>

\* const pdfs = await findPdfPathsRecursive(process.cwd()); a throw of the
\* top-level await ends the script with status 1
Discover ==
    /\ pc = "start"
    /\ LET r == findPdfPathsRecursive(tree)
       IN IF r.thrown
          THEN /\ pc' = "crashed"
               /\ exitStatus' = <<1>>
               /\ UNCHANGED <<pdfs, proc>>
          ELSE /\ pdfs' = r.res
               /\ proc' = [j \in 1..Len(r.res) |-> "none"]
               /\ pc' = "check"
               /\ UNCHANGED exitStatus
    /\ UNCHANGED <<mapIn, mapOut, tree, fs, i, jobVars, histVars>>

\* the test of run.ts:164 never taken
NoPdfsNever(list) == FALSE

\* pdfs.length === 0
NoPdfs(list) == Len(list) = 0

\* warn(...); process.exit(0)
ExitNoPdfs ==
    /\ pc = "check"
    /\ NoPdfs(pdfs)
    /\ pc' = "exited"
    /\ exitStatus' = <<0>>
    /\ UNCHANGED <<mapIn, mapOut, tree, fs, pdfs, i, proc, jobVars, histVars>>

\* for (let i = 0; ...
StartLoop ==
    /\ pc = "check"
    /\ ~NoPdfs(pdfs)
    /\ i' = 1
    /\ pc' = IF 1 <= Len(pdfs) THEN "gate" ELSE "finish"
    /\ UNCHANGED <<mapIn, mapOut, tree, fs, pdfs, proc, jobVars, histVars, exitStatus>>

\* an iteration that takes the same candidate again after a failure
AdvanceRetry(outcome) ==
    /\ outcomes' = Append(outcomes, outcome)
    /\ i' = IF outcome \in {"Failed", "Errored"} THEN i ELSE i + 1
    /\ pc' = IF outcome \in {"Failed", "Errored"} \/ i + 1 <= Len(pdfs)
             THEN "gate" ELSE "finish"
    /\ procOut' = << >>
    /\ procCode' = 0
    /\ stdoutText' = << >>
    /\ isJson' = FALSE
    /\ code' = 0
    /\ steps' = << >>
    /\ fsOp' = "none"
    /\ procWrote' = FALSE

\* the end of one iteration: its outcome is logged, i++ and the loop test
Advance(outcome) ==
    /\ outcomes' = Append(outcomes, outcome)
    /\ i' = i + 1
    /\ pc' = IF i + 1 <= Len(pdfs) THEN "gate" ELSE "finish"
    /\ procOut' = << >>
    /\ procCode' = 0
    /\ stdoutText' = << >>
    /\ isJson' = FALSE
    /\ code' = 0
    /\ steps' = << >>
    /\ fsOp' = "none"
    /\ procWrote' = FALSE

(***************************************************************************)
(* The gate.                                                               *)
(***************************************************************************)
\* await access(p) resolves: the file is there and the probe meets no error
access(f, fault) == f.exists /\ ~fault

\* a gate that reports every companion file as missing
fileExistsNever(accessOk) == FALSE

\* the gate with its answer inverted
fileExistsInverted(accessOk) == ~accessOk

\* try { await access(p); return true; } catch { return false; }
fileExists(accessOk) == accessOk

\* if (await fileExists(outPath)) { log("skip existing JSON:"); continue; }
GateSkip ==
    /\ pc = "gate"
    /\ \E fault \in BOOLEAN :
          LET f == fs[jsonPathForPdf(pdfs[i])]
          IN /\ fileExists(access(f, fault))
             /\ gateSaw' = Append(gateSaw, [existed |-> f.exists,
                                            probed |-> access(f, fault)])
    /\ Advance("Skipped")
    /\ UNCHANGED <<mapIn, mapOut, tree, fs, pdfs, proc, invoked, touched, exitStatus>>

\* fileExists answered false: try { const code = await runPolkaWithPath(p)
GateMiss ==
    /\ pc = "gate"
    /\ \E fault \in BOOLEAN :
          LET f == fs[jsonPathForPdf(pdfs[i])]
          IN /\ ~fileExists(access(f, fault))
             /\ gateSaw' = Append(gateSaw, [existed |-> f.exists,
                                            probed |-> access(f, fault)])
    /\ invoked' = Append(invoked, i)
    /\ pc' = "spawn"
    /\ UNCHANGED <<mapIn, mapOut, tree, fs, pdfs, i, proc, jobVars, outcomes, touched, exitStatus>>

(***************************************************************************)
(* runPolkaWithPath.                                                       *)
(***************************************************************************)
\* a throw with no try around the call of runPolkaWithPath
ThrowUncaught == "crashed"

\* where a throw inside runPolkaWithPath lands: the catch of run.ts:184
ThrowTarget == "catch"

\* Bun.spawn throws: no process is created
SpawnThrows ==
    /\ pc = "spawn"
    /\ pc' = ThrowTarget
    /\ UNCHANGED <<mapIn, mapOut, tree, fs, pdfs, i, proc, jobVars, histVars, exitStatus>>

\* Bun.spawn returns a process with its stdin and stdout piped.  Both are
\* requested as "pipe", so both streams are there and the guard of run.ts:127
\* is passed.
SpawnOk ==
    /\ pc = "spawn"
    /\ proc' = [proc EXCEPT ![i] = "running"]
    /\ steps' = <<"spawn">>
    /\ pc' = "stdin_write"
    /\ UNCHANGED <<mapIn, mapOut, tree, fs, pdfs, i, procOut, procCode, stdoutText, isJson, code,
                   fsOp, procWrote, histVars, exitStatus>>

\* the read of stdout taken up right after the write, stdin left open
AfterWriteReadsAtOnce == "read"

\* the statement that follows proc.stdin.write(bytes): proc.stdin.end()
AfterWrite == "stdin_end"

\* proc.stdin.write(bytes)
WriteStdin ==
    /\ pc = "stdin_write"
    /\ steps' = Append(steps, "write")
    /\ pc' = AfterWrite
    /\ UNCHANGED <<mapIn, mapOut, tree, fs, pdfs, i, proc, procOut, procCode, stdoutText, isJson,
                   code, fsOp, procWrote, histVars, exitStatus>>

\* proc.stdin.end()
EndStdin ==
    /\ pc = "stdin_end"
    /\ steps' = Append(steps, "end")
    /\ pc' = "read"
    /\ UNCHANGED <<mapIn, mapOut, tree, fs, pdfs, i, proc, procOut, procCode, stdoutText, isJson,
                   code, fsOp, procWrote, histVars, exitStatus>>

\* a stream that never ends
StdoutNeverEnds(j) == FALSE

\* the stream proc.stdout has ended
StdoutEnded(j) == proc[j] \in {"closed", "exited"}

\* const stdoutText = await new Response(proc.stdout).text()
ReadStdout ==
    /\ pc = "read"
    /\ StdoutEnded(i)
    /\ stdoutText' = Decode(procOut)
    /\ steps' = Append(steps, "read")
    /\ pc' = "parse"
    /\ UNCHANGED <<mapIn, mapOut, tree, fs, pdfs, i, proc, procOut, procCode, isJson, code, fsOp,
                   procWrote, histVars, exitStatus>>

\* try { JSON.parse(stdoutText); isJson = true; } catch {}
ParseJson ==
    /\ pc = "parse"
    /\ isJson' = JsonParses(stdoutText)
    /\ pc' = "wait"
    /\ UNCHANGED <<mapIn, mapOut, tree, fs, pdfs, i, proc, procOut, procCode, stdoutText, code,
                   steps, fsOp, procWrote, histVars, exitStatus>>

\* going on as soon as stdout has ended, without waiting for the exit
ExitNotAwaited(j) == proc[j] \in {"closed", "exited"}

\* the promise proc.exited has resolved
ExitObserved(j) == proc[j] = "exited"

\* const code = await proc.exited
AwaitExit ==
    /\ pc = "wait"
    /\ ExitObserved(i)
    /\ code' = procCode
    /\ steps' = Append(steps, "wait")
    /\ pc' = "decide"
    /\ UNCHANGED <<mapIn, mapOut, tree, fs, pdfs, i, proc, procOut, procCode, stdoutText, isJson,
                   fsOp, procWrote, histVars, exitStatus>>

\* a job that also fails when stdout is no JSON
JobFailedOrNotJson(c, json) == c # 0 \/ ~json

\* if (code !== 0)
JobFailed(c, json) == c # 0

\* the cleanup left out: the file stays
RemoveNothing(f) == f

\* the file after an unlink that met no error
Removed(f) == Absent

\* an unlink whose error leaves runPolkaWithPath as a throw
UnlinkErrorThrown == "catch"

\* catch {} of run.ts:153: the error of unlink is dropped and the function
\* goes on to its return
UnlinkErrorTarget == "return"

\* try { await unlink(outPath); } catch {}
UnlinkOnFailure ==
    /\ pc = "decide"
    /\ JobFailed(code, isJson)
    /\ \E refused \in BOOLEAN :
          LET out == jsonPathForPdf(pdfs[i])
          IN IF ~fs[out].exists
             THEN fsOp' = "unlink_enoent" /\ UNCHANGED <<fs, touched>>
             ELSE IF refused
                  THEN fsOp' = "unlink_refused" /\ UNCHANGED <<fs, touched>>
                  ELSE /\ fsOp' = "unlinked"
                       /\ fs' = [fs EXCEPT ![out] = Removed(fs[out])]
                       /\ touched' = touched \cup {out}
    /\ steps' = Append(steps, "decide")
    /\ pc' = IF fsOp' = "unlinked" THEN "return" ELSE UnlinkErrorTarget
    /\ UNCHANGED <<mapIn, mapOut, tree, pdfs, i, proc, procOut, procCode, stdoutText, isJson, code,
                   procWrote, gateSaw, invoked, outcomes, exitStatus>>

\* writing the preview of run.ts:145 instead of the whole text
WrittenPreview(text) == Encode(SubSeq(text, 1, Len(text) - 1))

\* the bytes Bun.write(outPath, stdoutText) stores
Written(text) == Encode(text)

\* const written = await Bun.write(outPath, stdoutText)
WriteOk ==
    /\ pc = "decide"
    /\ ~JobFailed(code, isJson)
    /\ LET out == jsonPathForPdf(pdfs[i])
       IN /\ fs' = [fs EXCEPT ![out] = FileWith(Written(stdoutText))]
          /\ touched' = touched \cup {out}
    /\ fsOp' = "written"
    /\ steps' = Append(steps, "decide")
    /\ pc' = "return"
    /\ UNCHANGED <<mapIn, mapOut, tree, pdfs, i, proc, procOut, procCode, stdoutText, isJson, code,
                   procWrote, gateSaw, invoked, outcomes, exitStatus>>

\* Bun.write rejects, having stored nothing or a part
WriteThrows ==
    /\ pc = "decide"
    /\ ~JobFailed(code, isJson)
    /\ \E partial \in BOOLEAN :
          LET out == jsonPathForPdf(pdfs[i])
          IN IF partial
             THEN /\ fs' = [fs EXCEPT ![out] = FileWith(PartialData)]
                  /\ touched' = touched \cup {out}
             ELSE UNCHANGED <<fs, touched>>
    /\ fsOp' = "write_failed"
    /\ steps' = Append(steps, "decide")
    /\ pc' = ThrowTarget
    /\ UNCHANGED <<mapIn, mapOut, tree, pdfs, i, proc, procOut, procCode, stdoutText, isJson, code,
                   procWrote, gateSaw, invoked, outcomes, exitStatus>>

\* return code; if (code !== 0) warn("continuing after failure for:", p)
Return ==
    /\ pc = "return"
    /\ Advance(IF code # 0 THEN "Failed" ELSE "Succeeded")
    /\ UNCHANGED <<mapIn, mapOut, tree, fs, pdfs, proc, gateSaw, invoked, touched, exitStatus>>

\* catch (e) { error("unhandled error for:", p, ...) }
Catch ==
    /\ pc = "catch"
    /\ Advance("Errored")
    /\ UNCHANGED <<mapIn, mapOut, tree, fs, pdfs, proc, gateSaw, invoked, touched, exitStatus>>

\* an exit status that reports the failures of the run
ExitCodeByOutcomes(outs) ==
    IF \E k \in DOMAIN outs : outs[k] \in {"Failed", "Errored"} THEN 1 ELSE 0

\* the script ends without setting an exit code
ExitCodeOf(outs) == 0

\* log("done.") and the end of the script
Done ==
    /\ pc = "finish"
    /\ pc' = "done"
    /\ exitStatus' = <<ExitCodeOf(outcomes)>>
    /\ UNCHANGED <<mapIn, mapOut, tree, fs, pdfs, i, proc, jobVars, histVars>>

(***************************************************************************)
(* The external process: what `npx @polka-codes/cli --silent` may do       *)
(* between its spawn and its exit.                                         *)
(***************************************************************************)
\* the process creates or overwrites the companion file of its own PDF
ProcWritesFile(j) ==
    /\ proc[j] = "running"
    /\ LET out == jsonPathForPdf(pdfs[j])
       IN /\ fs[out] # FileWith(PartialData)
          /\ fs' = [fs EXCEPT ![out] = FileWith(PartialData)]
    /\ procWrote' = IF j = i THEN TRUE ELSE procWrote
    /\ UNCHANGED <<mapIn, mapOut, tree, pc, pdfs, i, proc, procOut, procCode, stdoutText, isJson,
                   code, steps, fsOp, histVars, exitStatus>>

\* the process has written all its output and closes its stdout
ProcClosesStdout(j) ==
    /\ proc[j] = "running"
    /\ proc' = [proc EXCEPT ![j] = "closed"]
    /\ \E out \in RawOutputs : procOut' = IF j = i THEN out ELSE procOut
    /\ UNCHANGED <<mapIn, mapOut, tree, fs, pc, pdfs, i, procCode, stdoutText, isJson, code, steps,
                   fsOp, procWrote, histVars, exitStatus>>

\* the process exits
ProcExits(j) ==
    /\ proc[j] = "closed"
    /\ proc' = [proc EXCEPT ![j] = "exited"]
    /\ \E c \in ExitCodes : procCode' = IF j = i THEN c ELSE procCode
    /\ UNCHANGED <<mapIn, mapOut, tree, fs, pc, pdfs, i, procOut, stdoutText, isJson, code, steps,
                   fsOp, procWrote, histVars, exitStatus>>

Next ==
    \/ Discover
    \/ ExitNoPdfs
    \/ StartLoop
    \/ GateSkip
    \/ GateMiss
    \/ SpawnThrows
    \/ SpawnOk
    \/ WriteStdin
    \/ EndStdin
    \/ ReadStdout
    \/ ParseJson
    \/ AwaitExit
    \/ UnlinkOnFailure
    \/ WriteOk
    \/ WriteThrows
    \/ Return
    \/ Catch
    \/ Done
    \/ \E j \in DOMAIN proc : ProcWritesFile(j)
    \/ \E j \in DOMAIN proc : ProcClosesStdout(j)
    \/ \E j \in DOMAIN proc : ProcExits(j)

Spec == Init /\ [][Next]_vars

NextDiscover == Discover

(***************************************************************************)
(* The run under fairness: the script takes its next step whenever it has  *)
(* one (every awaited file-system operation settles), and every spawned    *)
(* process closes its stdout and exits.  Nothing obliges a process to      *)
(* write a file.                                                           *)
(***************************************************************************)
InitLive ==
    /\ \E r \in RootEntries, s \in [1..LiveNodes -> RunEntries] :
          /\ tree = MakeTree(r, s, [k \in 1..LiveNodes |-> FlatShape(k)])
          /\ WellFormed(tree) /\ Packed(tree)
    /\ fs \in [CompanionPaths(tree) -> {Absent, FileWith(OldData)}]
    /\ Idle
    /\ NoMap

\* the steps of the script itself
ScriptStep ==
    \/ Discover
    \/ ExitNoPdfs
    \/ StartLoop
    \/ GateSkip
    \/ GateMiss
    \/ SpawnThrows
    \/ SpawnOk
    \/ WriteStdin
    \/ EndStdin
    \/ ReadStdout
    \/ ParseJson
    \/ AwaitExit
    \/ UnlinkOnFailure
    \/ WriteOk
    \/ WriteThrows
    \/ Return
    \/ Catch
    \/ Done

SpecLive ==
    /\ InitLive
    /\ [][Next]_vars
    /\ WF_vars(ScriptStep)
    /\ WF_vars(\E j \in DOMAIN proc : ProcClosesStdout(j))
    /\ WF_vars(\E j \in DOMAIN proc : ProcExits(j))

(***************************************************************************)
(* jsonPathForPdf alone, on every path of a bounded set.                   *)
(***************************************************************************)
\* the longest name made of the letters below
MaxNameLen == 4

NameChars == {"a", ".", "n"}

MapNames ==
    UNION {[1..n -> NameChars] : n \in 1..MaxNameLen}
        \cup {APdf, AUpperPdf, DotPdf, PdfX, <<"a">> \o DotJson, <<"a", ".", "n">> \o DotPdf}

MapDirs == {<< >>, <<DirPdf>>, <<DirPdf, NodeModules>>}

InitPath ==
    /\ mapIn \in {d \o <<n>> : d \in MapDirs, n \in MapNames}
    /\ mapOut = << >>
    /\ tree = MakeTree(Dir(<< >>, TRUE), << >>, << >>)
    /\ fs = << >>
    /\ Idle

\* const outPath = jsonPathForPdf(p), and the same on its result
MapPath ==
    /\ mapOut = << >>
    /\ mapIn # << >>
    /\ mapOut' = <<jsonPathForPdf(mapIn), jsonPathForPdf(jsonPathForPdf(mapIn))>>
    /\ UNCHANGED <<mapIn, tree, fs, pc, pdfs, i, proc, jobVars, histVars, exitStatus>>

NextPath == MapPath

SpecPath == InitPath /\ [][NextPath]_vars

SpecDiscover == InitDiscover /\ [][NextDiscover]_vars

(***************************************************************************)
(* Helpers of the properties.                                              *)
(***************************************************************************)
\* the companion path of the candidate the loop is at
JobOut == jsonPathForPdf(pdfs[i])

Alive == {j \in DOMAIN proc : proc[j] \in {"running", "closed"}}

RECURSIVE Ancestors(_, _)
Ancestors(t, n) ==
    IF n = 0 THEN {} ELSE {Parent(t, n)} \cup Ancestors(t, Parent(t, n))

IsPrefix(p, q) == Len(p) <= Len(q) /\ SubSeq(q, 1, Len(p)) = p

\* ".pdf" in every mix of upper and lower case
PdfSuffixes ==
    {<<".", a, b, c>> : a \in {"p", "P"}, b \in {"d", "D"}, c \in {"f", "F"}}

EndsInPdf(name) == \E pre \in {SubSeq(name, 1, k) : k \in 0..Len(name)} :
                      \E suf \in PdfSuffixes : name = pre \o suf

\* the regular files named *.pdf that are reachable from the root through
\* readable directories not named node_modules or .git
ReachablePdfs(t) ==
    {PathOf(t, n) : n \in {m \in DOMAIN t \ {0} :
        /\ t[m].kind = "file"
        /\ EndsInPdf(t[m].name)
        /\ \A a \in Ancestors(t, m) :
              /\ t[a].kind = "dir"
              /\ t[a].readable
              /\ a # 0 => t[a].name \notin {NodeModules, DotGit}}}

\* the directories the walk tries to list and cannot
FailingDirs(t) ==
    {d \in DOMAIN t :
        /\ t[d].kind = "dir" /\ ~t[d].readable
        /\ d # 0 => ~IsExcluded(t[d].name)
        /\ \A a \in Ancestors(t, d) :
              t[a].readable /\ (a # 0 => ~IsExcluded(t[a].name))}

\* the tree with every unreadable directory replaced by an empty readable one
Emptied(t) ==
    [n \in DOMAIN t |->
        IF \E a \in Ancestors(t, n) : ~t[a].readable
        THEN [t[n] EXCEPT !.kind = "none"]
        ELSE [t[n] EXCEPT !.readable = TRUE]]

(***************************************************************************)
(* C1.                                                                     *)
(***************************************************************************)
\* C1 as stated: a candidate whose companion file exists when the loop reaches
\* it is never handed to runPolkaWithPath, no process is spawned for it, and
\* the loop has moved on.
C1_ExistingCompanionNeverRun ==
    \A j \in DOMAIN gateSaw :
        gateSaw[j].existed =>
            /\ j \notin Range(invoked)
            /\ proc[j] = "none"
            /\ j \in DOMAIN outcomes /\ outcomes[j] = "Skipped" /\ i > j

\* C1 amended: a candidate whose companion file exists and is found by the
\* probe (access resolves) when the loop reaches it is never handed to
\* runPolkaWithPath, no process is spawned for it, and the loop has moved on.
C1_ProbedCompanionNeverRun ==
    \A j \in DOMAIN gateSaw :
        gateSaw[j].probed =>
            /\ j \notin Range(invoked)
            /\ proc[j] = "none"
            /\ j \in DOMAIN outcomes /\ outcomes[j] = "Skipped" /\ i > j

C1_Witness ==
    /\ pc = "gate"
    /\ \E j \in DOMAIN gateSaw : gateSaw[j].probed /\ i = j + 1

(***************************************************************************)
(* C2.                                                                     *)
(***************************************************************************)
\* C2 as stated: when a job is about to return a non-zero exit status, no
\* file exists at the companion path.
C2_NoCompanionAfterFailure ==
    (pc = "return" /\ code # 0) => ~fs[JobOut].exists

\* C2 amended: when a job is about to return a non-zero exit status, no file
\* exists at the companion path, whether it appeared during the job or was
\* there before, unless the deletion itself met an error.
C2_NoCompanionUnlessRefused ==
    (pc = "return" /\ code # 0 /\ fsOp # "unlink_refused") => ~fs[JobOut].exists

C2_Witness ==
    /\ pc = "return" /\ code # 0
    /\ procWrote /\ fsOp = "unlinked"
    /\ ~fs[JobOut].exists

(***************************************************************************)
(* C3.                                                                     *)
(***************************************************************************)
\* C3: when the process exited with status zero and the job is about to
\* return, the companion file exists and holds exactly the captured text
\* (as UTF-8), whatever was there before.
C3_CompanionHoldsCapturedText ==
    (pc = "return" /\ procCode = 0) =>
        /\ code = 0
        /\ fs[JobOut] = FileWith(Encode(stdoutText))

C3_Witness ==
    /\ pc = "return" /\ procCode = 0
    /\ procWrote
    /\ stdoutText = <<"U+FFFD">>
    /\ fs[JobOut] = FileWith(<<"EF", "BF", "BD">>)

(***************************************************************************)
(* C4.                                                                     *)
(***************************************************************************)
\* C4: a failed or throwing job never ends the loop: the script never
\* crashes or stops inside the loop, every outcome is followed by the next
\* candidate's gate, and at the end every candidate was gated and every
\* candidate the gate let through was run.
C4_FailureDoesNotStopTheLoop ==
    /\ pc # "crashed"
    /\ pc \in {"done", "exited"} \/ ENABLED Next
    /\ \A j \in DOMAIN outcomes :
          outcomes[j] \in {"Failed", "Errored"} =>
              /\ i > j
              /\ i <= Len(pdfs) \/ pc \in {"finish", "done"}
    /\ pc \in {"finish", "done"} =>
          /\ Len(gateSaw) = Len(pdfs)
          /\ Len(outcomes) = Len(pdfs)
          /\ \A j \in DOMAIN pdfs : outcomes[j] # "Skipped" => j \in Range(invoked)

C4_Witness ==
    /\ pc = "done"
    /\ Len(outcomes) >= 3
    /\ outcomes[1] = "Failed"
    /\ outcomes[2] = "Errored"
    /\ outcomes[3] = "Succeeded"
    /\ invoked = <<1, 2, 3>>

(***************************************************************************)
(* C5.                                                                     *)
(***************************************************************************)
\* C5: once discovery has returned no candidate, the script only exits, with
\* status zero: the loop is not entered, no job is invoked, no process is
\* spawned and the run writes or deletes no file.
C5_NoCandidatesExitsAtOnce ==
    (pc # "start" /\ Len(pdfs) = 0) =>
        /\ pc \in {"check", "exited"}
        /\ pc = "exited" => exitStatus = <<0>>
        /\ pc = "check" => ENABLED ExitNoPdfs
        /\ invoked = << >>
        /\ Alive = {} /\ proc = << >>
        /\ touched = {}

C5_Witness ==
    /\ pc = "exited"
    /\ exitStatus = <<0>>
    /\ tree[0].readable

(***************************************************************************)
(* C6.                                                                     *)
(***************************************************************************)
\* C6: whenever the script has ended, its exit status is zero, whatever the
\* outcomes of the candidates were.
C6_ExitStatusZero ==
    /\ exitStatus # << >> => exitStatus = <<0>>
    /\ pc \in {"done", "exited"} => exitStatus = <<0>>

C6_Witness ==
    /\ pc = "done"
    /\ exitStatus = <<0>>
    /\ {"Skipped", "Failed", "Errored"} \subseteq Range(outcomes)

(***************************************************************************)
(* C7.                                                                     *)
(***************************************************************************)
\* C7: discovery returns, each once, exactly the regular files named *.pdf
\* (in any case) that are reachable from the root through readable
\* directories not named node_modules or .git.
C7_DiscoversExactlyReachablePdfs ==
    pc = "check" =>
        /\ Range(pdfs) = ReachablePdfs(tree)
        /\ Cardinality(Range(pdfs)) = Len(pdfs)

C7_Witness ==
    /\ pc = "check"
    /\ Len(pdfs) >= 1
    /\ \E n \in DOMAIN tree \ {0} :
          /\ tree[n].kind = "file" /\ EndsInPdf(tree[n].name)
          /\ \E a \in Ancestors(tree, n) :
                a # Parent(tree, n) /\ tree[a].name \in {NodeModules, DotGit}
    /\ \E k \in DOMAIN pdfs : basename(pdfs[k]) = BPdf

(***************************************************************************)
(* C8.                                                                     *)
(***************************************************************************)
\* C8: discovery never fails on a directory it cannot list: it returns what
\* it would return if that directory were empty, so nothing beneath it and
\* everything found elsewhere, its later siblings included.
C8_UnreadableDirIsSkipped ==
    /\ pc # "crashed"
    /\ pc = "check" =>
          /\ pdfs = findPdfPathsRecursive(Emptied(tree)).res
          /\ \A d \in FailingDirs(tree) :
                /\ \A k \in DOMAIN pdfs : d # 0 => ~IsPrefix(PathOf(tree, d), pdfs[k])
                /\ \A s \in DOMAIN tree \ {0} :
                      (/\ d # 0 /\ s > d /\ Parent(tree, s) = Parent(tree, d)
                       /\ tree[s].kind = "file" /\ EndsInPdf(tree[s].name))
                          => PathOf(tree, s) \in Range(pdfs)

C8_Witness ==
    /\ pc = "check"
    /\ \E d \in FailingDirs(tree) \ {0} :
          /\ \E n \in DOMAIN tree \ {0} :
                Parent(tree, n) = d /\ tree[n].kind = "file" /\ EndsInPdf(tree[n].name)
          /\ \E s \in DOMAIN tree \ {0} :
                /\ s > d /\ Parent(tree, s) = Parent(tree, d)
                /\ PathOf(tree, s) \in Range(pdfs)

(***************************************************************************)
(* C9.                                                                     *)
(***************************************************************************)
\* C9: the job writes the companion file exactly when the exit status is
\* zero and tries to delete it exactly when it is not, whether or not the
\* captured output parses as JSON.
C9_ExitStatusAloneDecides ==
    /\ pc = "return" => fsOp # "none"
    /\ fsOp # "none" =>
          /\ (fsOp \in {"written", "write_failed"}) = (procCode = 0)
          /\ (fsOp \in {"unlinked", "unlink_enoent", "unlink_refused"}) = (procCode # 0)

C9_Witness ==
    /\ pc = "return"
    /\ ~isJson
    /\ procCode = 0
    /\ fsOp = "written"
    /\ fs[JobOut].exists

(***************************************************************************)
(* C10.                                                                    *)
(***************************************************************************)
\* C10: at most one external process is alive at any time, none is alive
\* while the loop is between two jobs, and the jobs are invoked one after
\* the other in discovery order.
C10_OneProcessAtATime ==
    /\ Cardinality(Alive) <= 1
    /\ Alive \subseteq {i}
    /\ pc \in {"gate", "spawn", "return", "catch", "finish", "done", "exited"}
          => Alive = {}
    /\ \A a, b \in DOMAIN invoked : a < b => invoked[a] < invoked[b]

C10_Witness ==
    /\ \E j, k \in DOMAIN proc : j < k /\ proc[j] = "exited" /\ proc[k] = "running"

(***************************************************************************)
(* C11.                                                                    *)
(***************************************************************************)
\* C11: no two distinct candidates of a run have the same companion path:
\* jsonPathForPdf is injective on the list discovery returned.
C11_CompanionPathsDistinct ==
    \A a, b \in DOMAIN pdfs :
        a # b => jsonPathForPdf(pdfs[a]) # jsonPathForPdf(pdfs[b])

(***************************************************************************)
(* C12.                                                                    *)
(***************************************************************************)
\* the name without its final extension component: what stands before the
\* last dot, when that dot is followed by at least one character
Stem(name) ==
    IF \E k \in 1..(Len(name) - 1) :
           name[k] = "." /\ \A j \in (k + 1)..Len(name) : name[j] # "."
    THEN LET k == CHOOSE k \in 1..(Len(name) - 1) :
                     name[k] = "." /\ \A j \in (k + 1)..Len(name) : name[j] # "."
         IN [j \in 1..(k - 1) |-> name[j]]
    ELSE name

\* C12: mapping the result of jsonPathForPdf again gives the same path; the
\* result lies in the directory of its argument and is named by the
\* argument's base name without its final extension component, followed by
\* .json.
C12_MapperIdempotentSameDir ==
    mapOut # << >> =>
        /\ mapOut[2] = mapOut[1]
        /\ Len(mapOut[1]) = Len(mapIn)
        /\ \A k \in 1..(Len(mapIn) - 1) : mapOut[1][k] = mapIn[k]
        /\ mapOut[1][Len(mapIn)] = Stem(mapIn[Len(mapIn)]) \o <<".", "j", "s", "o", "n">>

C12_Witness ==
    /\ mapIn = <<DirPdf, <<"a", ".", "n">> \o DotPdf>>
    /\ mapOut = <<<<DirPdf, <<"a", ".", "n">> \o DotJson>>,
                  <<DirPdf, <<"a", ".", "n">> \o DotJson>>>>

(***************************************************************************)
(* C14.                                                                    *)
(***************************************************************************)
\* the positions of the script inside the try block of one candidate
InJob == pc \in {"spawn", "stdin_write", "stdin_end", "read", "parse", "wait",
                 "decide", "return", "catch"}

\* C14: no candidate is taken twice in a run.  The gate has been evaluated
\* once for every candidate the loop has reached and for no other; the
\* candidates handed to the processor are strictly increasing positions of
\* the list, so none is invoked twice, whatever the outcomes before it.
C14_NoCandidateRetried ==
    /\ \A a, b \in DOMAIN invoked : a < b => invoked[a] < invoked[b]
    /\ \A a \in DOMAIN invoked : invoked[a] \in 1..Len(pdfs) /\ invoked[a] <= i
    /\ i >= 1 => Len(outcomes) = i - 1
    /\ Len(gateSaw) = Len(outcomes) + (IF InJob THEN 1 ELSE 0)
    /\ Len(gateSaw) <= Len(pdfs)
    /\ pc = "done" => Len(gateSaw) = Len(pdfs)

C14_Witness ==
    /\ pc = "done"
    /\ Len(pdfs) = 3
    /\ outcomes[1] = "Failed"
    /\ outcomes[2] = "Errored"
    /\ invoked = <<1, 2, 3>>

(***************************************************************************)
(* C15.                                                                    *)
(***************************************************************************)
\* the steps of runPolkaWithPath on its process, in the order of the claim
JobOrder == <<"spawn", "write", "end", "read", "wait", "decide">>

\* C15: the steps of a job on its process are always an initial part of
\* write stdin, end stdin, read stdout to its end, await the exit, decide:
\* stdout is read only after stdin was ended and only once the stream has
\* ended, the exit status is taken only after the read and once the process
\* has exited, and the companion file is written or deleted only after that.
C15_StepsInOrder ==
    /\ Len(steps) <= Len(JobOrder)
    /\ \A k \in DOMAIN steps : steps[k] = JobOrder[k]
    /\ pc \in {"parse", "wait", "decide"} => Len(steps) >= 4
    /\ Len(steps) >= 4 => proc[i] \in {"closed", "exited"}
    /\ Len(steps) >= 5 => proc[i] = "exited" /\ code = procCode
    /\ fsOp # "none" => steps = JobOrder

C15_Witness ==
    /\ steps = JobOrder
    /\ fsOp = "written"
    /\ proc[i] = "exited"

(***************************************************************************)
(* C16.                                                                    *)
(***************************************************************************)
\* C16: a run whose root directory cannot be read never ends as a normal
\* run: it does not end with status 0, neither through the exit taken for
\* an empty tree nor through the completion marker.
C16_UnreadableRootAborts ==
    ~tree[0].readable => /\ pc \notin {"exited", "done"}
                         /\ exitStatus # <<0>>

(***************************************************************************)
(* C17.                                                                    *)
(***************************************************************************)
\* the unlink of a failed job met an error: no file, or the deletion refused
UnlinkFailed == fsOp \in {"unlink_enoent", "unlink_refused"}

\* C17: when the delete after a non-zero exit status fails, the job is at
\* its return with that non-zero status, not in the catch of the loop; the
\* step of the script that follows records Failed for the candidate and
\* moves to the next candidate, or to the end of the run after the last.
C17_UnlinkErrorSwallowed ==
    /\ [](UnlinkFailed => pc = "return" /\ code # 0)
    /\ [][(UnlinkFailed /\ pc' # pc) =>
             /\ outcomes' = Append(outcomes, "Failed")
             /\ i' = i + 1
             /\ pc' = IF i < Len(pdfs) THEN "gate" ELSE "finish"]_vars

C17_Witness ==
    /\ pc = "gate"
    /\ i = 2
    /\ outcomes = <<"Failed">>
    /\ fs[jsonPathForPdf(pdfs[1])].exists
    /\ ~gateSaw[1].existed

(***************************************************************************)
(* C18.                                                                    *)
(***************************************************************************)
Outcomes == {"Skipped", "Succeeded", "Failed", "Errored"}

\* C18: under the fairness of SpecLive, a run that discovered at least one
\* candidate reaches the completion marker; outcomes are recorded one at a
\* time, the k-th for the k-th candidate of the list, and at the marker
\* every candidate has exactly one outcome of the four kinds.
C18_RunCompletes ==
    /\ (pc = "check" /\ Len(pdfs) >= 1) ~> (pc = "done")
    /\ [][outcomes' # outcomes =>
             /\ \E o \in Outcomes : outcomes' = Append(outcomes, o)
             /\ Len(outcomes') = i
             /\ i' = i + 1]_vars
    /\ [](pc \in {"finish", "done"} =>
             /\ Len(pdfs) >= 1
             /\ Len(outcomes) = Len(pdfs)
             /\ \A k \in DOMAIN outcomes : outcomes[k] \in Outcomes)

C18_Witness ==
    /\ pc = "done"
    /\ Len(pdfs) = 2
    /\ outcomes[1] \in {"Failed", "Errored"}
    /\ outcomes[2] = "Succeeded"

(***************************************************************************)
(* C19.                                                                    *)
(***************************************************************************)
\* every probe of the gate so far answered what the file system held
ProbesAccurate(saw) == \A k \in DOMAIN saw : saw[k].probed = saw[k].existed

\* the companion paths a job of this run has written after exit status 0
WrittenByRun ==
    {jsonPathForPdf(pdfs[j]) : j \in {k \in DOMAIN outcomes : outcomes[k] = "Succeeded"}}
        \cup (IF pc = "return" /\ fsOp = "written" THEN {JobOut} ELSE {})

\* C19: while every probe of the gate is accurate, no step after a job has
\* written a companion file changes that file: not the script, and not a
\* process of a later job.
C19_WrittenCompanionKept ==
    [][ProbesAccurate(gateSaw') => \A p \in WrittenByRun : fs'[p] = fs[p]]_vars

C19_Witness ==
    /\ pc = "done"
    /\ ProbesAccurate(gateSaw)
    /\ \E j, k \in DOMAIN pdfs :
          /\ j < k
          /\ jsonPathForPdf(pdfs[j]) = jsonPathForPdf(pdfs[k])
          /\ outcomes[j] = "Succeeded"
          /\ outcomes[k] = "Skipped"
          /\ fs[jsonPathForPdf(pdfs[j])].exists

(***************************************************************************)
(* C20.                                                                    *)
(***************************************************************************)
\* the script wrote or deleted only companion paths of candidates it invoked
TouchedOnlyInvoked ==
    touched \subseteq {jsonPathForPdf(pdfs[invoked[k]]) : k \in DOMAIN invoked}

\* no companion path is the path of a candidate
NoCompanionIsCandidate ==
    \A j, k \in DOMAIN pdfs : jsonPathForPdf(pdfs[j]) # pdfs[k]

\* the script wrote or deleted no companion file of a skipped candidate
SkippedUntouched ==
    \A k \in DOMAIN outcomes :
        outcomes[k] = "Skipped" => jsonPathForPdf(pdfs[k]) \notin touched

\* C20: the script writes or deletes files only at companion paths of
\* candidates that passed the gate, never at the path of a candidate, and
\* never at the companion path of a candidate it skipped.
C20_OnlyGatedCompanionsTouched ==
    /\ TouchedOnlyInvoked
    /\ NoCompanionIsCandidate
    /\ SkippedUntouched

====
